---- MODULE Spec2Model ----
(***************************************************************************)
(* The fact-check edge function (supabase/functions/fact-check/index.ts,   *)
(* the later of the two versions in the file, lines 285-664) as a state    *)
(* machine: the serve handler run by MaxRequests concurrent requests over  *)
(* the fact_checks table, with the requester factCheckWithGemini and the   *)
(* fingerprint hashText as operators; and the client service               *)
(* (src/services/fakeNewsDetector.ts): its sanitizeClientInput run on its  *)
(* own, its analyzeText calling the endpoint, and the keyword analyzer     *)
(* analyzeTextLocally of the version that works without the endpoint.      *)
(*                                                                         *)
(* A text is a sequence of UTF-16 code units (JavaScript's string).        *)
(* A JavaScript value is a record [t, s, len, twice]: t its typeof tag     *)
(* ("undefined", "string", "number", "array", "object"), s a string's      *)
(* content, len a string's or an array's length, and twice a number's      *)
(* value times two, so that 85.5 is the number with twice = 171.           *)
(***************************************************************************)
EXTENDS Integers, Sequences, FiniteSets, TLC

\* ------------------------------------------------------------------ bounds

\* Concurrent requests the model runs.
MaxRequests == 2

\* The length of the short texts the sanitizer is run on.
MaxTextLen == 3

\* ------------------------------------------------------------------- texts

Min(a, b) == IF a < b THEN a ELSE b

\* JavaScript's white space (String.prototype.trim, the regexp class \s),
\* over the code units the model uses.
IsSpace(c) == c \in {9, 10, 11, 12, 13, 32, 160}

RECURSIVE TrimStart(_)
TrimStart(t) ==
  IF t # <<>> /\ IsSpace(Head(t)) THEN TrimStart(Tail(t)) ELSE t

RECURSIVE TrimEnd(_)
TrimEnd(t) ==
  IF t # <<>> /\ IsSpace(t[Len(t)]) THEN TrimEnd(SubSeq(t, 1, Len(t) - 1)) ELSE t

\* text.trim()
Trim(t) == TrimEnd(TrimStart(t))

\* text.substring(0, n)
Substring0(t, n) == SubSeq(t, 1, Min(n, Len(t)))

\* One code unit of toLowerCase(): ASCII and Latin-1 capitals.
LowerUnit(c) ==
  IF (c >= 65 /\ c <= 90) \/ (c >= 192 /\ c <= 222 /\ c # 215) THEN c + 32 ELSE c

\* text.toLowerCase()
ToLowerCase(t) == [i \in 1..Len(t) |-> LowerUnit(t[i])]

\* text.includes(word)
Includes(t, w) ==
  \E i \in 0..(Len(t) - Len(w)) : SubSeq(t, i + 1, i + Len(w)) = w

\* text.replace(/[<>\"'&]/g, ''): the code units of < > " ' & removed
RemoveDangerous(t) == SelectSeq(t, LAMBDA c : c \notin {60, 62, 34, 39, 38})

\* text.replace(/\s+/g, ' '): each run of white space becomes one space (the
\* first unit of a run becomes 32, the others, marked -1, are dropped)
CollapseWhitespace(t) ==
  LET marked == [i \in 1..Len(t) |->
                   IF ~IsSpace(t[i]) THEN t[i]
                   ELSE IF i > 1 /\ IsSpace(t[i - 1]) THEN -1
                   ELSE 32]
  IN  SelectSeq(marked, LAMBDA c : c # -1)

\* sanitizeClientInput(text) of the client service, for a non-empty string
sanitizeClientInput(t) ==
  Substring0(Trim(CollapseWhitespace(RemoveDangerous(t))), 2000)

\* if (!text || typeof text !== 'string') throw new Error('Texto inválido')
sanitizeClientInputThrows(t) == t = <<>>

IsHighSurrogate(c) == c >= 55296 /\ c <= 56319
IsLowSurrogate(c) == c >= 56320 /\ c <= 57343

\* encodeURIComponent(t) throws URIError exactly when t holds a surrogate
\* code unit that is not half of a pair.
EncodeURIComponentThrows(t) ==
  \E i \in 1..Len(t) :
    \/ IsHighSurrogate(t[i]) /\ (i = Len(t) \/ ~IsLowSurrogate(t[i + 1]))
    \/ IsLowSurrogate(t[i]) /\ (i = 1 \/ ~IsHighSurrogate(t[i - 1]))

\* ------------------------------------------------------------- fingerprint

\* A 32-bit integer is kept as its two 16-bit halves <<high, low>> (its
\* two's complement bits), since 2^32 is beyond the checker's integers.

\* hash = ((hash << 5) - hash) + char; hash = hash & hash: the low 32 bits of
\* 31 * hash + char.
HashStep(hash, char) ==
  LET low == hash[2] * 31 + char
      high == hash[1] * 31 + (low \div 65536)
  IN  <<high % 65536, low % 65536>>

RECURSIVE HashFrom(_, _)
HashFrom(hash, t) ==
  IF t = <<>> THEN hash
  \* the step's value h is computed once, whatever evaluates the rest
  ELSE CHOOSE r \in {HashFrom(h, Tail(t)) : h \in {HashStep(hash, Head(t))}} : TRUE

\* Math.abs of a 32-bit integer: the negation of a negative one (high bit
\* set), which for -2^31 is 2^31, the bits unchanged.
Abs32(hash) ==
  IF hash[1] < 32768 THEN hash
  ELSE IF hash[2] = 0 THEN <<(65536 - hash[1]) % 65536, 0>>
  ELSE <<65535 - hash[1], 65536 - hash[2]>>

\* hashText(text): Math.abs(hash).toString(), kept as the number it prints.
hashText(t) == Abs32(HashFrom(<<0, 0>>, t))

\* ------------------------------------------------------- JavaScript values

JsUndefined == [t |-> "undefined", s |-> "", len |-> 0, twice |-> 0]
JsNull == [t |-> "null", s |-> "", len |-> 0, twice |-> 0]
JsString(s, len) == [t |-> "string", s |-> s, len |-> len, twice |-> 0]
\* The number n, and the number n + 0.5.
JsNumber(n) == [t |-> "number", s |-> "", len |-> 0, twice |-> 2 * n]
JsNumberAndHalf(n) == [t |-> "number", s |-> "", len |-> 0, twice |-> 2 * n + 1]
\* An array of len entries; s names where it was built.
JsArray(s, len) == [t |-> "array", s |-> s, len |-> len, twice |-> 0]

\* !v is false
Truthy(v) ==
  CASE v.t = "undefined" -> FALSE
    [] v.t = "null" -> FALSE
    [] v.t = "string" -> v.len > 0
    [] v.t = "number" -> v.twice # 0
    [] OTHER -> TRUE

IsInteger(v) == v.t = "number" /\ v.twice % 2 = 0

\* typeof v === 'number' && v >= 0 && v <= 100
NumberInRange(v) == v.t = "number" /\ v.twice >= 0 /\ v.twice <= 2 * 100

\* ['real', 'fake', 'uncertain'].includes(v)
IsStatus(v) == v.t = "string" /\ v.s \in {"real", "fake", "uncertain"}

\* ---------------------------------------------------------- the requester

\* What the external API did with one call: net is the fetch ("reject": the
\* promise rejects, "not_ok": a non-success status, "ok"), hasText whether
\* candidates[0].content.parts[0].text is there, textLen the length of that
\* text (of the error text when not ok), parse what JSON parsing makes
\* of it ("strict": the cleaned text parses, "span": only the {...} span
\* parses, "badspan": there is a span and it does not parse, "nojson": there
\* is no span), kind the parsed value ("object", "array", "primitive",
\* "null"), status .. sources the parsed object's fields, words the keywords
\* the lower-cased text contains and hasBrace whether it contains '{'.
Outcome(net, hasText, textLen, parse, kind, status, confidence, justification, sources, words, hasBrace) ==
  [net |-> net, hasText |-> hasText, textLen |-> textLen, parse |-> parse,
   kind |-> kind, status |-> status, confidence |-> confidence,
   justification |-> justification, sources |-> sources, words |-> words,
   hasBrace |-> hasBrace]

\* A call that ends before any text is parsed.
NoText(net, hasText, textLen) ==
  Outcome(net, hasText, textLen, "nojson", "null", JsUndefined, JsUndefined,
          JsUndefined, JsUndefined, {}, FALSE)

\* result.<field>: an array or a primitive has none of the four.
Field(g, name) == IF g.kind = "object" THEN g[name] ELSE JsUndefined

\* What the try block ends in: "" when it returns, else the error it throws.
TryError(text, g) ==
  CASE g.net = "reject" -> "fetch"
    [] g.net = "not_ok" -> "api"
    [] ~g.hasText -> "noresponse"
    [] g.parse = "badspan" -> "noparse"
    [] g.parse = "nojson" -> "nojson"
    \* result.status of null; result.status = ... on a primitive (strict mode)
    [] g.kind \in {"null", "primitive"} -> "type"
    \* the default source's url, built when result.sources is []
    [] /\ Field(g, "sources").t = "array"
       /\ Field(g, "sources").len = 0
       /\ EncodeURIComponentThrows(Substring0(text, 100)) -> "uri"
    [] OTHER -> ""

\* error.message's length
ErrorLen(err, g) ==
  CASE err = "fetch" -> g.textLen
    [] err = "api" -> 24 + g.textLen
    [] err = "noresponse" -> 27
    [] err = "noparse" -> 45
    [] err = "nojson" -> 32
    [] err = "uri" -> 13
    [] OTHER -> 48

\* The keyword scan of the response text (lines 453-463).
ScanStatus(g) ==
  IF g.words \cap {"verdadeiro", "real", "confirmado"} # {} THEN "real"
  ELSE IF g.words \cap {"falso", "fake", "incorreto"} # {} THEN "fake"
  ELSE "uncertain"

\* Validate and clean the result: the status
StatusValid(g) == Truthy(Field(g, "status")) /\ IsStatus(Field(g, "status"))

CleanStatus(g) == IF StatusValid(g) THEN Field(g, "status").s ELSE ScanStatus(g)

\* result.confidence after the status step
ScanConfidence(g) ==
  IF StatusValid(g) THEN Field(g, "confidence")
  ELSE IF ScanStatus(g) = "uncertain" THEN JsNumber(50) ELSE JsNumber(80)

\* Ensure confidence is reasonable
CleanConfidence(g) ==
  IF NumberInRange(ScanConfidence(g)) THEN ScanConfidence(g)
  ELSE IF CleanStatus(g) \in {"real", "fake"} THEN JsNumber(80) ELSE JsNumber(50)

\* Ensure justification exists
CleanJustification(g) ==
  LET j == Field(g, "justification")
  IN  IF Truthy(j) /\ j.t = "string" THEN j
      ELSE IF g.hasBrace THEN JsString("generic", 59)
      ELSE JsString("response", g.textLen)

\* CleanSources without the default source for an empty array.
CleanSourcesKeepEmpty(g) ==
  LET src == Field(g, "sources")
  IN  IF src.t # "array" THEN JsArray("gemini", 1) ELSE src

\* Ensure sources array exists; add default sources if none provided
CleanSources(g) ==
  LET src == Field(g, "sources")
  IN  IF src.t # "array" THEN JsArray("gemini", 1)
      ELSE IF src.len = 0 THEN JsArray("search", 1)
      ELSE src

Verdict(status, confidence, justification, sources) ==
  [status |-> status, confidence |-> confidence,
   justification |-> justification, sources |-> sources]

NoVerdict == Verdict("", JsUndefined, JsUndefined, JsUndefined)

\* The 5 suspiciousWords of the catch block.
suspiciousWords ==
  { <<109, 105, 108, 97, 103, 114, 101>>,                    \* milagre
    <<99, 117, 114, 97, 32, 105, 110, 115, 116, 97, 110, 116, 226, 110,
      101, 97>>,                                             \* cura instantânea
    <<115, 101, 103, 114, 101, 100, 111, 32, 113, 117, 101, 32, 109, 233,
      100, 105, 99, 111, 115, 32, 110, 227, 111, 32, 113, 117, 101, 114,
      101, 109>>,                             \* segredo que médicos não querem
    <<103, 111, 118, 101, 114, 110, 111, 32, 101, 115, 99, 111, 110, 100,
      101>>,                                                 \* governo esconde
    <<99, 111, 110, 115, 112, 105, 114, 97, 99, 121>> }      \* conspiracy

hasSuspiciousWords(text) ==
  \E word \in suspiciousWords : Includes(ToLowerCase(text), word)

\* FallbackVerdict with the uncertain confidence of 30 that the earlier
\* requester (searchWithGemini) returned.
FallbackVerdictEarlier(text, err, g) ==
  Verdict(IF hasSuspiciousWords(text) THEN "fake" ELSE "uncertain",
          IF hasSuspiciousWords(text) THEN JsNumber(60) ELSE JsNumber(30),
          JsString("fallback", 77 + ErrorLen(err, g) + 93),
          JsArray("fallback", 1))

\* The catch block's Verdict.
FallbackVerdict(text, err, g) ==
  Verdict(IF hasSuspiciousWords(text) THEN "fake" ELSE "uncertain",
          IF hasSuspiciousWords(text) THEN JsNumber(60) ELSE JsNumber(40),
          JsString("fallback",
                   77 + ErrorLen(err, g) + 93
                     + (IF hasSuspiciousWords(text) THEN 63 ELSE 0)),
          JsArray("fallback", 2))

\* What a call returns to the handler: a Verdict ("validated": the try block's
\* return, "fallback": the catch block's), or an exception.
Returned(verdict, path) == [raised |-> FALSE, verdict |-> verdict, path |-> path]

Raised == [raised |-> TRUE, verdict |-> NoVerdict, path |-> "raised"]

\* factCheckWithGemini(text), with GEMINI_API_KEY set or not, when the
\* external API does g.
factCheckWithGemini(text, keySet, g) ==
  IF ~keySet THEN Raised
  ELSE IF TryError(text, g) = ""
    THEN Returned(Verdict(CleanStatus(g), CleanConfidence(g),
                          CleanJustification(g), CleanSources(g)),
                  "validated")
  \* the catch block builds its first source's url from the text
  ELSE IF EncodeURIComponentThrows(Substring0(text, 100)) THEN Raised
  ELSE Returned(FallbackVerdict(text, TryError(text, g), g), "fallback")

\* ------------------------------------------------------------ the endpoint

\* The requests of a run; all come from one client, within one window.
Requests == 1..MaxRequests

\* Request bodies: one that req.json() rejects, one whose text is no string,
\* and texts.
NotJson == [kind |-> "notjson", text |-> <<>>]
NonString == [kind |-> "nonstring", text |-> <<>>]
TextBody(t) == [kind |-> "text", text |-> t]

\* The texts of the concurrent runs: two that differ in letter case and in a
\* run of white space, and the empty one.
RequestTexts ==
  { <<>>,                                                    \* ""
    <<86, 97, 99, 105, 110, 97, 32, 99, 97, 117, 115, 97, 32, 97, 117, 116,
      105, 115, 109, 111>>,                                  \* "Vacina causa autismo"
    <<118, 97, 99, 105, 110, 97, 32, 32, 99, 97, 117, 115, 97, 32, 97, 117,
      116, 105, 115, 109, 111>> }                            \* "vacina  causa autismo"

Bodies == {TextBody(t) : t \in RequestTexts}

\* The texts of the single-request runs.
AllTexts ==
  RequestTexts \cup
  { <<32, 32>>,                                              \* "  "
    <<97, 98, 99>>,                                          \* "abc"
    <<79, 32, 109, 105, 108, 97, 103, 114, 101, 32, 100, 97, 32, 99, 117,
      114, 97>>,                                             \* "O milagre da cura"
    <<55357, 32, 118, 97, 99, 105, 110, 97, 32, 99, 117, 114, 97>> }
                                      \* "\ud83d vacina cura", a lone surrogate

AllBodies == {NotJson, NonString} \cup {TextBody(t) : t \in AllTexts}

\* No call was made.
NoOutcome == NoText("none", FALSE, 0)

\* What the external API does in the concurrent runs.
HandlerOutcomes ==
  { NoText("not_ok", FALSE, 30),
    \* {"status":"real","confidence":90,"justification":..,"sources":[]}
    Outcome("ok", TRUE, 400, "strict", "object", JsString("real", 4),
            JsNumber(90), JsString("model", 200), JsArray("model", 0),
            {"real"}, TRUE),
    \* prose around {"status":"fake","confidence":85.5,..,"sources":[..]}
    Outcome("ok", TRUE, 400, "span", "object", JsString("fake", 4),
            JsNumberAndHalf(85), JsString("model", 200), JsArray("model", 1),
            {"fake"}, TRUE) }

\* What the external API does in the single-request runs. The fields of a
\* parsed object:
ModelStatuses ==
  {JsUndefined, JsString("real", 4), JsString("fake", 4),
   JsString("uncertain", 9), JsString("incerto", 7)}

ModelConfidences ==
  {JsUndefined, JsString("90", 2), JsNumber(-1), JsNumber(90),
   JsNumberAndHalf(85), JsNumber(101)}

ModelJustifications ==
  {JsUndefined, JsString("", 0), JsString("model", 200), JsString("model", 1500)}

ModelSources ==
  {JsUndefined, JsArray("model", 0), JsArray("model", 2), JsArray("model", 6)}

\* The keywords of the text besides its status: none, an affirming one, a
\* denying one, both.
ModelWords == {{}, {"verdadeiro"}, {"falso"}, {"verdadeiro", "falso"}}

\* The text of a JSON object holds its status.
StatusWord(status) == IF status.s \in {"real", "fake"} THEN {status.s} ELSE {}

Outcomes ==
  \* the fetch rejects, a non-success status, a success without text
  { NoText("reject", FALSE, 20), NoText("not_ok", FALSE, 30),
    NoText("ok", FALSE, 0) }
  \cup
  \* prose without a {...} span, a {...} span that does not parse
  { Outcome("ok", TRUE, 120, parse, "null", JsUndefined, JsUndefined,
            JsUndefined, JsUndefined, words, parse = "badspan") :
      parse \in {"nojson", "badspan"}, words \in ModelWords }
  \cup
  \* a JSON text that is no object: null, a number, an array
  { Outcome("ok", TRUE, 10, "strict", kind, JsUndefined, JsUndefined,
            JsUndefined, JsUndefined, {}, FALSE) :
      kind \in {"null", "primitive", "array"} }
  \cup
  \* a JSON object, alone or in prose
  { Outcome("ok", TRUE, 400, parse, "object", status, confidence,
            justification, sources, words \cup StatusWord(status), TRUE) :
      parse \in {"strict", "span"}, status \in ModelStatuses,
      confidence \in ModelConfidences, justification \in ModelJustifications,
      sources \in ModelSources, words \in ModelWords }

\* A row of fact_checks (search_results: which path built the Verdict).
Row(text, result) ==
  [text_hash |-> hashText(text), input_text |-> text,
   status |-> result.verdict.status, confidence |-> result.verdict.confidence,
   justification |-> result.verdict.justification,
   sources |-> result.verdict.sources, search_results |-> result.path]

NoRow ==
  [text_hash |-> <<-1, -1>>, input_text |-> <<>>, status |-> "",
   confidence |-> JsUndefined, justification |-> JsUndefined,
   sources |-> JsUndefined, search_results |-> ""]

\* The table's column types and CHECK constraints (part_002, lines 4-8).
RowAllowed(row) ==
  /\ row.status \in {"real", "fake", "uncertain"}
  /\ IsInteger(row.confidence) /\ NumberInRange(row.confidence)
  /\ row.justification.t = "string"

\* Select filtering on the wrong column: input_text never equals a hash.
SelectOnInputText(table, textHash) ==
  IF \E row \in table : row.input_text = textHash
  THEN CHOOSE row \in table : row.input_text = textHash
  ELSE NoRow

\* .select('*').eq('text_hash', textHash).maybeSingle()
Select(table, textHash) ==
  IF \E row \in table : row.text_hash = textHash
  THEN CHOOSE row \in table : row.text_hash = textHash
  ELSE NoRow

\* InsertError of a table whose text_hash column is not UNIQUE.
InsertErrorNotUnique(table, row) == IF ~RowAllowed(row) THEN "check" ELSE ""

\* .insert(row): "" when the row is stored, else the error.
InsertError(table, row) ==
  IF ~RowAllowed(row) THEN "check"
  ELSE IF \E r \in table : r.text_hash = row.text_hash THEN "conflict"
  ELSE ""

\* Inserted of an upsert: a conflicting row takes the stored row's place.
InsertedOrReplaced(table, row, insertError) ==
  IF insertError = "" THEN table \cup {row}
  ELSE IF insertError = "conflict"
    THEN {r \in table : r.text_hash # row.text_hash} \cup {row}
  ELSE table

\* The table after .insert(row) returned insertError.
Inserted(table, row, insertError) ==
  IF insertError = "" THEN table \cup {row} ELSE table

\* Responses. cached is "true", "false" or "absent"; a body without verdict
\* fields has NoVerdict.
Response(http, hasError, verdict, cached) ==
  [http |-> http, hasError |-> hasError, verdict |-> verdict, cached |-> cached]

NoResponse == Response(0, FALSE, NoVerdict, "absent")

\* lines 568-574
BadRequest == Response(400, TRUE, NoVerdict, "absent")

\* CachedResponse without the cached flag set.
CachedResponseUnflagged(row) ==
  Response(200, FALSE,
           Verdict(row.status, row.confidence, row.justification, row.sources),
           "false")

\* lines 596-607
CachedResponse(row) ==
  Response(200, FALSE,
           Verdict(row.status, row.confidence, row.justification,
                   IF Truthy(row.sources) THEN row.sources ELSE JsArray("none", 0)),
           "true")

\* lines 635-646
FreshResponse(result) == Response(200, FALSE, result.verdict, "false")

\* ServerError without the verdict fields: the 500 body of the earlier
\* version of the handler (lines 272-281).
ServerErrorEarlier == Response(500, TRUE, NoVerdict, "absent")

\* lines 650-662
ServerError ==
  Response(500, TRUE,
           Verdict("uncertain", JsNumber(30), JsString("error", 83),
                   JsArray("none", 0)),
           "absent")

\* InsertResponse failing the request when the insert failed.
InsertResponseStrict(result, insertError) ==
  IF insertError = "" THEN FreshResponse(result) ELSE ServerError

\* lines 628-646: the response after the insert, whatever its error
InsertResponse(result, insertError) == FreshResponse(result)

\* const cleanText = text.trim()
cleanText(body) == Trim(body.text)

\* lines 565-575: the response that ends the request before the lookup,
\* NoResponse when it goes on.
EarlyResponse(body) ==
  IF body.kind = "notjson" THEN ServerError
  ELSE IF body.kind = "nonstring" \/ body.text = <<>> \/ Trim(body.text) = <<>>
    THEN BadRequest
  ELSE NoResponse

\* lines 560-575: createClient throws 'supabaseUrl is required.' on the ''
\* that an unset SUPABASE_URL becomes; then the body is read and checked.
ReceiveResponse(urlSet, body) ==
  IF ~urlSet THEN ServerError ELSE EarlyResponse(body)

\* ------------------------------------------------------------------- state

VARIABLES
  GEMINI_API_KEY,  \* whether the environment sets it
  SUPABASE_URL,    \* whether the environment sets it
  fact_checks,     \* the table: a set of rows
  req,             \* each request's place in the handler and its locals
  client           \* the client service's sanitizer at work on a text

vars == <<GEMINI_API_KEY, SUPABASE_URL, fact_checks, req, client>>

\* The endpoint's variables.
serverVars == <<GEMINI_API_KEY, SUPABASE_URL, fact_checks, req>>

\* pc: "idle" (not yet sent), "lookup", "call", "insert" (the handler's three
\* awaits ahead) or "done" (responded). before is the set of
\* requests that had responded when this one arrived; outcome is
\* what the external API did with the request's call and did lists the store
\* and API operations the request has performed.
IdleRequest ==
  [pc |-> "idle", body |-> NotJson, before |-> {},
   existingResult |-> NoRow, fetchError |-> FALSE, outcome |-> NoOutcome,
   result |-> Raised,
   insertError |-> "", response |-> NoResponse, did |-> <<>>]

\* The sanitizer before its first call on text: pc counts its calls ("start",
\* "once", "twice"), once and twice are what they returned and threw whether
\* the last one threw.
ClientAt(text) ==
  [pc |-> "start", text |-> text, once |-> <<>>, twice |-> <<>>, threw |-> FALSE]

Init ==
  /\ GEMINI_API_KEY \in BOOLEAN
  /\ SUPABASE_URL \in BOOLEAN
  /\ fact_checks = {}
  /\ req = [i \in Requests |-> IdleRequest]
  /\ client = ClientAt(<<>>)

Responded(i) == req[i].pc = "done"

\* Requests arrive in the order of their numbers: that only names each run
\* once.
MayArrive(i) ==
  /\ req[i].pc = "idle"
  /\ \A j \in Requests : j < i => req[j].pc # "idle"

\* Received of a handler that looks the text up before it checks it.
ReceivedAfterLookup(r, body, before, response) ==
  [r EXCEPT !.body = body, !.before = before, !.response = response,
            !.did = <<"lookup">>,
            !.pc = IF response = NoResponse THEN "lookup" ELSE "done"]

\* The request's locals when the handler has read and checked the body
\* (lines 559-581): it has touched neither the table nor the external API.
Received(r, body, before, response) ==
  [r EXCEPT !.body = body, !.before = before, !.response = response,
            !.pc = IF response = NoResponse THEN "lookup" ELSE "done"]

\* serve, lines 553-581: the request arrives, its body is read and checked.
Receive(i, body) ==
  /\ MayArrive(i)
  /\ req' = [req EXCEPT ![i] =
       Received(@, body, {j \in Requests : Responded(j)},
                ReceiveResponse(SUPABASE_URL, body))]
  /\ UNCHANGED <<GEMINI_API_KEY, SUPABASE_URL, fact_checks, client>>

\* serve, lines 583-608: the cache lookup; storeFails: the select returns an
\* error and no data.
Lookup(i, storeFails) ==
  /\ req[i].pc = "lookup"
  /\ LET existingResult ==
           IF storeFails THEN NoRow
           ELSE Select(fact_checks, hashText(cleanText(req[i].body)))
     IN  req' = [req EXCEPT ![i] =
           [@ EXCEPT !.existingResult = existingResult,
                     !.fetchError = storeFails,
                     !.did = Append(@, "lookup"),
                     !.response = IF existingResult # NoRow
                                  THEN CachedResponse(existingResult)
                                  ELSE NoResponse,
                     !.pc = IF existingResult # NoRow THEN "done" ELSE "call"]]
  /\ UNCHANGED <<GEMINI_API_KEY, SUPABASE_URL, fact_checks, client>>

\* Fetched of a requester that calls the API again when its call failed.
FetchedWithRetry(did, keySet, g) ==
  IF ~keySet THEN did
  ELSE IF g.net = "ok" THEN Append(did, "fetch")
  ELSE did \o <<"fetch", "fetch">>

\* What the request has done once factCheckWithGemini ended: its one fetch
\* (line 364), or none without the key (lines 320-322).
Fetched(did, keySet, g) == IF keySet THEN Append(did, "fetch") ELSE did

\* serve, line 613: factCheckWithGemini(cleanText); g is what the API does.
\* An exception ends the request in the catch of lines 648-663.
Call(i, g) ==
  /\ req[i].pc = "call"
  /\ LET result == factCheckWithGemini(cleanText(req[i].body), GEMINI_API_KEY, g)
     IN  req' = [req EXCEPT ![i] =
           [@ EXCEPT !.result = result,
                     !.outcome = IF GEMINI_API_KEY THEN g ELSE NoOutcome,
                     !.did = Fetched(@, GEMINI_API_KEY, g),
                     !.response = IF result.raised THEN ServerError
                                  ELSE NoResponse,
                     !.pc = IF result.raised THEN "done" ELSE "insert"]]
  /\ UNCHANGED <<GEMINI_API_KEY, SUPABASE_URL, fact_checks, client>>

\* serve, lines 615-646: the insert and the response; storeFails: the store
\* answers with an error of its own.
Insert(i, storeFails) ==
  /\ req[i].pc = "insert"
  /\ LET row == Row(cleanText(req[i].body), req[i].result)
         insertError == IF storeFails THEN "store"
                        ELSE InsertError(fact_checks, row)
     IN  /\ fact_checks' = Inserted(fact_checks, row, insertError)
         /\ req' = [req EXCEPT ![i] =
              [@ EXCEPT !.insertError = insertError,
                        !.did = Append(@, "insert"),
                        !.response = InsertResponse(req[i].result, insertError),
                        !.pc = "done"]]
  /\ UNCHANGED <<GEMINI_API_KEY, SUPABASE_URL, client>>

Next ==
  \/ \E i \in Requests, body \in Bodies : Receive(i, body)
  \/ \E i \in Requests, storeFails \in BOOLEAN : Lookup(i, storeFails)
  \/ \E i \in Requests, g \in HandlerOutcomes : Call(i, g)
  \/ \E i \in Requests, storeFails \in BOOLEAN : Insert(i, storeFails)

\* Concurrent requests for a few texts.
Spec == Init /\ [][Next]_vars

\* One request, for every body and everything the external API can do.
OneRequestNext ==
  \/ \E body \in AllBodies : Receive(1, body)
  \/ \E storeFails \in BOOLEAN : Lookup(1, storeFails)
  \/ \E g \in Outcomes : Call(1, g)
  \/ \E storeFails \in BOOLEAN : Insert(1, storeFails)

OneRequestSpec == Init /\ [][OneRequestNext]_vars

\* factCheckWithGemini, line 364: the external API never answers, and the
\* await of a fetch without timeout or abort signal never resumes.
\* Two different texts of one fingerprint: 65 * 31 + 97 = 66 * 31 + 66.
CollidingTexts == { <<65, 97>>, <<66, 66>> }                 \* "Aa", "BB"

CollidingBodies == {TextBody(t) : t \in CollidingTexts}

\* The endpoint serving requests for the colliding texts.
CollisionNext ==
  \/ \E i \in Requests, body \in CollidingBodies : Receive(i, body)
  \/ \E i \in Requests, storeFails \in BOOLEAN : Lookup(i, storeFails)
  \/ \E i \in Requests, g \in HandlerOutcomes : Call(i, g)
  \/ \E i \in Requests, storeFails \in BOOLEAN : Insert(i, storeFails)

CollisionSpec == Init /\ [][CollisionNext]_vars

Hang(i) ==
  /\ req[i].pc = "call"
  /\ GEMINI_API_KEY
  /\ req' = [req EXCEPT ![i] =
       [@ EXCEPT !.outcome = NoText("pending", FALSE, 0),
                 !.did = Append(@, "fetch"),
                 !.pc = "fetching"]]
  /\ UNCHANGED <<GEMINI_API_KEY, SUPABASE_URL, fact_checks, client>>

\* A step of the handler of request 1 once it has received the request.
HandlerStep ==
  \/ \E storeFails \in BOOLEAN : Lookup(1, storeFails)
  \/ \E g \in HandlerOutcomes : Call(1, g)
  \/ \E storeFails \in BOOLEAN : Insert(1, storeFails)

LiveNext ==
  \/ \E body \in AllBodies : Receive(1, body)
  \/ HandlerStep
  \/ Hang(1)

\* The handler goes on while it can: the store answers every select and
\* insert, and the external API answers a call it has not left pending.
Fairness == WF_vars(HandlerStep)

\* One request, with an external API that may never answer.
LiveSpec == Init /\ [][LiveNext]_vars /\ Fairness

\* ----------------------------------------------------------- the sanitizer

\* The texts the sanitizer is run on: the short ones over a space, '<' and
\* 'a', and each of them after 1999 times 'a', around the limit of 2000.
ShortTexts == UNION {[1..n -> {32, 60, 97}] : n \in 0..MaxTextLen}

LongRun == [i \in 1..1999 |-> 97]

SanitizeTexts == ShortTexts \cup {LongRun \o t : t \in ShortTexts}

SanitizeInit ==
  /\ GEMINI_API_KEY = TRUE
  /\ SUPABASE_URL = TRUE
  /\ fact_checks = {}
  /\ req = [i \in Requests |-> IdleRequest]
  /\ client \in {ClientAt(text) : text \in SanitizeTexts}

\* sanitizeClientInput(text), and then sanitizeClientInput of what it
\* returned.
Sanitize ==
  /\ client.pc \in {"start", "once"}
  /\ ~client.threw
  /\ LET text == IF client.pc = "start" THEN client.text ELSE client.once
     IN  client' =
           IF sanitizeClientInputThrows(text)
           THEN [client EXCEPT !.threw = TRUE,
                               !.pc = IF @ = "start" THEN "once" ELSE "twice"]
           ELSE IF client.pc = "start"
           THEN [client EXCEPT !.once = sanitizeClientInput(text), !.pc = "once"]
           ELSE [client EXCEPT !.twice = sanitizeClientInput(text), !.pc = "twice"]
  /\ UNCHANGED serverVars

SanitizeNext == Sanitize

\* The sanitizer alone, called twice on each text.
SanitizeSpec == SanitizeInit /\ [][SanitizeNext]_vars

\* --------------------------------------------------- the local analyzer

\* part_001, lines 142-147
fakeNewsKeywords ==
  << <<97, 98, 115, 111, 108, 117, 116, 97, 109, 101, 110, 116, 101, 32,
       103, 97, 114, 97, 110, 116, 105, 100, 111>>,
       \* absolutamente garantido
     <<99, 117, 114, 97, 32, 109, 105, 108, 97, 103, 114, 111, 115, 97>>,
       \* cura milagrosa
     <<100, 101, 115, 99, 111, 98, 101, 114, 116, 97, 32, 105, 110, 99,
       114, 237, 118, 101, 108>>,
       \* descoberta incrível
     <<109, 233, 100, 105, 99, 111, 115, 32, 111, 100, 101, 105, 97, 109>>,
       \* médicos odeiam
     <<49, 48, 48, 37, 32, 99, 111, 109, 112, 114, 111, 118, 97, 100,
       111>>,
       \* 100% comprovado
     <<118, 101, 114, 100, 97, 100, 101, 32, 111, 99, 117, 108, 116, 97>>,
       \* verdade oculta
     <<101, 108, 101, 115, 32, 110, 227, 111, 32, 113, 117, 101, 114, 101,
       109, 32, 113, 117, 101, 32, 118, 111, 99, 234, 32, 115, 97, 105, 98,
       97>>,
       \* eles não querem que você saiba
     <<100, 101, 115, 99, 111, 98, 101, 114, 116, 97, 32, 114, 101, 118,
       111, 108, 117, 99, 105, 111, 110, 225, 114, 105, 97>>,
       \* descoberta revolucionária
     <<109, 233, 116, 111, 100, 111, 32, 115, 101, 99, 114, 101, 116,
       111>>,
       \* método secreto
     <<102, 117, 110, 99, 105, 111, 110, 97, 32, 115, 101, 109, 112, 114,
       101>> >>
       \* funciona sempre

\* part_001, lines 150-154
uncertaintyKeywords ==
  << <<100, 105, 122, 101, 109, 32, 113, 117, 101>>,
       \* dizem que
     <<97, 108, 103, 117, 110, 115, 32, 101, 115, 112, 101, 99, 105, 97,
       108, 105, 115, 116, 97, 115>>,
       \* alguns especialistas
     <<112, 111, 100, 101, 32, 115, 101, 114, 32, 113, 117, 101>>,
       \* pode ser que
     <<101, 120, 105, 115, 116, 101, 32, 97, 32, 112, 111, 115, 115, 105,
       98, 105, 108, 105, 100, 97, 100, 101>>,
       \* existe a possibilidade
     <<115, 101, 103, 117, 110, 100, 111, 32, 114, 117, 109, 111, 114, 101,
       115>>,
       \* segundo rumores
     <<97, 112, 97, 114, 101, 110, 116, 101, 109, 101, 110, 116, 101>>,
       \* aparentemente
     <<115, 117, 112, 111, 115, 116, 97, 109, 101, 110, 116, 101>>,
       \* supostamente
     <<116, 97, 108, 118, 101, 122>>,
       \* talvez
     <<112, 114, 111, 118, 97, 118, 101, 108, 109, 101, 110, 116, 101>> >>
       \* provavelmente

\* part_001, lines 157-163: the Map, in insertion order
knownFacts ==
  << [status |-> "real", confidence |-> 95,
      fact |-> <<97, 109, 97, 122, 111, 110, 97, 115, 32, 109, 97, 105,
      111, 114, 32, 101, 115, 116, 97, 100, 111, 32, 98, 114, 97, 115,
      105, 108, 101, 105, 114, 111>>],
       \* amazonas maior estado brasileiro
     [status |-> "real", confidence |-> 100,
      fact |-> <<98, 114, 97, 115, 237, 108, 105, 97, 32, 99, 97, 112,
      105, 116, 97, 108, 32, 98, 114, 97, 115, 105, 108>>],
       \* brasília capital brasil
     [status |-> "real", confidence |-> 100,
      fact |-> <<98, 114, 97, 115, 105, 108, 32, 105, 110, 100, 101, 112,
      101, 110, 100, 234, 110, 99, 105, 97, 32, 49, 56, 50, 50>>],
       \* brasil independência 1822
     [status |-> "real", confidence |-> 100,
      fact |-> <<114, 101, 97, 108, 32, 109, 111, 101, 100, 97, 32, 98,
      114, 97, 115, 105, 108>>],
       \* real moeda brasil
     [status |-> "real", confidence |-> 80,
      fact |-> <<112, 111, 112, 117, 108, 97, 231, 227, 111, 32, 98, 114,
      97, 115, 105, 108, 32, 50, 48, 48, 32, 109, 105, 108, 104, 245, 101,
      115>>] >>
       \* população brasil 200 milhões

\* The keywords of the list that text includes, in the list's order
\* (keywords.filter(keyword => lowerText.includes(keyword))).
KeywordsFound(lowerText, keywords) ==
  SelectSeq(keywords, LAMBDA keyword : Includes(lowerText, keyword))

IsDigit(c) == c >= 48 /\ c <= 57

\* The regexp class \w
IsWordUnit(c) ==
  IsDigit(c) \/ (c >= 65 /\ c <= 90) \/ (c >= 97 /\ c <= 122) \/ c = 95

\* The regexp assertion \b between t[p] and t[p + 1]
WordBoundary(t, p) ==
  (p >= 1 /\ IsWordUnit(t[p])) # (p < Len(t) /\ IsWordUnit(t[p + 1]))

\* /\d+/.test(text)
hasNumbers(t) == \E i \in 1..Len(t) : IsDigit(t[i])

\* /\d{4}|\d{1,2}\/\d{1,2}/.test(text)
hasSpecificDates(t) ==
  \/ \E i \in 1..(Len(t) - 3) : \A m \in i..(i + 3) : IsDigit(t[m])
  \/ \E i \in 1..(Len(t) - 2) :
       IsDigit(t[i]) /\ t[i + 1] = 47 /\ IsDigit(t[i + 2])

\* The regexp class [a-záção\s]
IsEntityUnit(c) == (c >= 97 /\ c <= 122) \/ c \in {225, 231, 227} \/ IsSpace(c)

\* /\b[A-Z][a-záção\s]+\b/.test(text)
hasSpecificEntities(t) ==
  \E i \in 1..Len(t) :
    /\ t[i] >= 65 /\ t[i] <= 90
    /\ WordBoundary(t, i - 1)
    /\ \E k \in 1..(Len(t) - i) :
         /\ WordBoundary(t, i + k)
         /\ \A m \in (i + 1)..(i + k) : IsEntityUnit(t[m])

\* What the analyzer returns: sources counts the entries of its sources.
LocalResult(status, confidence, sources) ==
  [threw |-> FALSE, status |-> status, confidence |-> confidence,
   sources |-> sources]

\* The analyzer throws: encodeURIComponent's URIError.
LocalThrew == [threw |-> TRUE, status |-> "", confidence |-> 0, sources |-> 0]

\* part_001, lines 165-259: analyzeTextLocally(text)
analyzeTextLocally(text) ==
  LET lowerText == ToLowerCase(text)
      facts == SelectSeq(knownFacts, LAMBDA f : Includes(lowerText, f.fact))
      fakeKeywordsFound == Len(KeywordsFound(lowerText, fakeNewsKeywords))
      uncertainKeywordsFound == Len(KeywordsFound(lowerText, uncertaintyKeywords))
      specific == hasNumbers(text) /\ hasSpecificDates(text)
                    /\ hasSpecificEntities(text)
      generic == ~hasNumbers(text) /\ ~hasSpecificDates(text)
                   /\ ~hasSpecificEntities(text)
  IN  IF facts # <<>>
        THEN LocalResult(facts[1].status, facts[1].confidence, 1)
      ELSE IF fakeKeywordsFound > 0
        THEN LocalResult("fake", 75 + (fakeKeywordsFound * 5), 1)
      ELSE IF EncodeURIComponentThrows(Substring0(text, 100)) THEN LocalThrew
      ELSE IF uncertainKeywordsFound > 1
        THEN LocalResult("uncertain", 40 - (uncertainKeywordsFound * 5), 1)
      ELSE IF specific THEN LocalResult("real", 70, 2)
      ELSE IF generic THEN LocalResult("uncertain", 30, 2)
      ELSE LocalResult("uncertain", 50, 2)

\* What a call of analyzeText ends in: its promise rejected, or resolved
\* with result.
LocalRejected == [ended |-> "rejected", result |-> LocalThrew]

LocalResolved(result) == [ended |-> "resolved", result |-> result]

\* part_001, lines 261-310: analyzeText of the version that analyzes locally
analyzeTextLocal(text) ==
  IF text = <<>> \/ Trim(text) = <<>> THEN LocalRejected
  ELSE IF sanitizeClientInputThrows(text) THEN LocalRejected
  ELSE IF Len(sanitizeClientInput(text)) < 10 THEN LocalRejected
  ELSE IF ~analyzeTextLocally(sanitizeClientInput(text)).threw
    THEN LocalResolved(analyzeTextLocally(sanitizeClientInput(text)))
  \* the catch block builds its first source's url from the text
  ELSE IF EncodeURIComponentThrows(Substring0(sanitizeClientInput(text), 100))
    THEN LocalRejected
  ELSE LocalResolved(LocalResult("uncertain", 20, 2))

\* The first n keywords of the list, a space after each.
RECURSIVE JoinFirst(_, _)
JoinFirst(keywords, n) ==
  IF n = 0 THEN <<>> ELSE JoinFirst(keywords, n - 1) \o keywords[n] \o <<32>>

\* How the texts given to the local analyzer begin.
LocalBase == <<110, 111, 116, 105, 99, 105, 97, 32, 100, 101, 32, 104,
  111, 106, 101, 32>>
  \* "noticia de hoje "
LocalDated == <<69, 109, 32, 49, 50, 47, 50, 48, 50, 48, 32, 111, 32, 66,
  114, 97, 115, 105, 108, 32, 99, 114, 101, 115, 99, 101, 117, 32, 51, 32,
  112, 111, 114, 32, 99, 101, 110, 116, 111, 32>>
  \* "Em 12/2020 o Brasil cresceu 3 por cento "
LocalFact == <<65, 32, 98, 114, 97, 115, 237, 108, 105, 97, 32, 99, 97,
  112, 105, 116, 97, 108, 32, 98, 114, 97, 115, 105, 108, 32>>
  \* "A brasília capital brasil "
LocalPlain == <<79, 32, 103, 111, 118, 101, 114, 110, 111, 32, 97, 110,
  117, 110, 99, 105, 111, 117, 32, 109, 101, 100, 105, 100, 97, 115, 32>>
  \* "O governo anunciou medidas "

LocalLoneSurrogate == LocalBase \o <<55357>>

\* The texts given to the local analyzer: a beginning, then some of the fake
\* news keywords and some of the uncertainty keywords; and two that
\* analyzeText rejects.
LocalTexts ==
  { b \o JoinFirst(fakeNewsKeywords, n) \o JoinFirst(uncertaintyKeywords, m) :
      b \in {LocalBase, LocalDated, LocalFact, LocalPlain, LocalLoneSurrogate},
      n \in 0..Len(fakeNewsKeywords), m \in 0..Len(uncertaintyKeywords) }
    \cup { <<>>, <<97, 98, 99>> }

\* The client before analyzeText(text).
LocalClientAt(text) ==
  [pc |-> "start", text |-> text, ended |-> "", result |-> LocalThrew]

LocalInit ==
  /\ GEMINI_API_KEY = TRUE
  /\ SUPABASE_URL = TRUE
  /\ fact_checks = {}
  /\ req = [i \in Requests |-> IdleRequest]
  /\ client \in {LocalClientAt(text) : text \in LocalTexts}

\* analyzeText(text) of the local version, from call to settled promise.
AnalyzeLocal ==
  /\ client.pc = "start"
  /\ client' = [client EXCEPT !.pc = "done",
                              !.ended = analyzeTextLocal(client.text).ended,
                              !.result = analyzeTextLocal(client.text).result]
  /\ UNCHANGED serverVars

LocalNext == AnalyzeLocal

\* The local analyzer alone, called once on each text.
LocalSpec == LocalInit /\ [][LocalNext]_vars

\* ---------------------------------------------------- the client service

\* What analyzeText returns: sources counts the entries; cached is "true",
\* "false" or "absent".
AnalysisResult(status, confidence, justification, sources, cached) ==
  [status |-> status, confidence |-> confidence,
   justification |-> justification, sources |-> sources, cached |-> cached]

NoAnalysisResult ==
  AnalysisResult("", JsUndefined, JsUndefined, JsUndefined, "absent")

\* fakeNewsDetector.ts, lines 538-548: the result built from the data of a
\* 200 response.
ValidatedResult(response) ==
  AnalysisResult(
    IF response.verdict.status \in {"real", "fake", "uncertain"}
      THEN response.verdict.status ELSE "uncertain",
    IF NumberInRange(response.verdict.confidence)
      THEN response.verdict.confidence ELSE JsNumber(50),
    IF response.verdict.justification.t = "string"
      THEN JsString(response.verdict.justification.s,
                    Min(response.verdict.justification.len, 1000))
      ELSE JsString("unavailable", 23),
    IF response.verdict.sources.t = "array"
      THEN JsArray(response.verdict.sources.s,
                   Min(response.verdict.sources.len, 5))
      ELSE JsArray("none", 0),
    "false")

\* lines 558-573: the result of the catch block
FallbackResult ==
  AnalysisResult("uncertain", JsNumber(20), JsString("fallback", 0),
                 JsArray("fallback", 2), "absent")

\* What the client's fetch gets for its request: the endpoint's response, a
\* rejected promise, a response without a body, or a 429 or a 413 put in
\* its place on the way.
Replies == {"response", "network", "empty", "429", "413"}

\* lines 510-530: the try block throws.
RequestFailed(reply, response) ==
  \/ reply # "response"
  \/ response.http < 200 \/ response.http > 299

\* lines 491-576, from the reply on: what the promise of analyzeText is
\* settled with.
Settled(cleanedText, reply, response) ==
  IF ~RequestFailed(reply, response)
    THEN [ended |-> "resolved", result |-> ValidatedResult(response)]
  \* the catch block builds its first source's url from the text
  ELSE IF EncodeURIComponentThrows(Substring0(cleanedText, 100))
    THEN [ended |-> "rejected", result |-> NoAnalysisResult]
  ELSE [ended |-> "resolved", result |-> FallbackResult]

\* lines 492-506: analyzeText throws before it sends anything.
RejectsInput(text) ==
  \/ text = <<>> \/ Trim(text) = <<>>
  \/ sanitizeClientInputThrows(text)
  \/ Len(sanitizeClientInput(text)) < 10

\* The texts the user submits: "", "abc", "Vacina causa autismo" and
\* "\ud83d vacina cura".
ClientTexts ==
  { <<>>, <<97, 98, 99>>,
    <<86, 97, 99, 105, 110, 97, 32, 99, 97, 117, 115, 97, 32, 97, 117, 116,
      105, 115, 109, 111>>,
    <<55357, 32, 118, 97, 99, 105, 110, 97, 32, 99, 117, 114, 97>> }

\* The client at its n-th call analyzeText(text): sent counts the requests
\* of the call, slot is the request it waits for, reply what it got.
CallingClient(text, n) ==
  [pc |-> "start", text |-> text, n |-> n, sent |-> 0, slot |-> 0,
   reply |-> "none", ended |-> "", result |-> NoAnalysisResult]

ClientInit ==
  /\ GEMINI_API_KEY \in BOOLEAN
  /\ SUPABASE_URL = TRUE
  /\ fact_checks = {}
  /\ req = [i \in Requests |-> IdleRequest]
  /\ client \in {CallingClient(text, 1) : text \in ClientTexts}

\* analyzeText, lines 492-506: the input is refused.
ClientRejects ==
  /\ client.pc = "start"
  /\ RejectsInput(client.text)
  /\ client' = [client EXCEPT !.pc = "done", !.ended = "rejected"]
  /\ UNCHANGED serverVars

\* analyzeText, lines 492-518: the sanitized text is posted to the endpoint,
\* where it arrives as request i.
ClientSends(i) ==
  /\ client.pc = "start"
  /\ ~RejectsInput(client.text)
  /\ MayArrive(i)
  /\ LET body == TextBody(sanitizeClientInput(client.text))
     IN  req' = [req EXCEPT ![i] =
           Received(@, body, {j \in Requests : Responded(j)},
                    ReceiveResponse(SUPABASE_URL, body))]
  /\ client' = [client EXCEPT !.pc = "waiting", !.slot = i, !.sent = @ + 1]
  /\ UNCHANGED <<GEMINI_API_KEY, SUPABASE_URL, fact_checks>>

\* analyzeText, lines 520-576: the fetch is settled and the promise with it.
ClientSettles(reply) ==
  /\ client.pc = "waiting"
  /\ Responded(client.slot)
  /\ LET settled == Settled(sanitizeClientInput(client.text), reply,
                            req[client.slot].response)
     IN  client' = [client EXCEPT !.pc = "done", !.reply = reply,
                                 !.ended = settled.ended,
                                 !.result = settled.result]
  /\ UNCHANGED serverVars

\* The user submits another text.
ClientAgain(text) ==
  /\ client.pc = "done"
  /\ client.n < MaxRequests
  /\ client' = CallingClient(text, client.n + 1)
  /\ UNCHANGED serverVars

ClientNext ==
  \/ ClientRejects
  \/ \E i \in Requests : ClientSends(i)
  \/ \E i \in Requests, storeFails \in BOOLEAN : Lookup(i, storeFails)
  \/ \E i \in Requests, g \in HandlerOutcomes : Call(i, g)
  \/ \E i \in Requests, storeFails \in BOOLEAN : Insert(i, storeFails)
  \/ \E reply \in Replies : ClientSettles(reply)
  \/ \E text \in ClientTexts : ClientAgain(text)

\* The client service calling the endpoint, one call after the other.
ClientSpec == ClientInit /\ [][ClientNext]_vars

\* ------------------------------------------------------------------ claims

\* The text of the request is a string the spec's sanitizer accepts: at least
\* 10 characters once sanitized.
ValidText(i) ==
  /\ req[i].pc # "idle"
  /\ req[i].body.kind = "text"
  /\ Len(sanitizeClientInput(req[i].body.text)) >= 10

\* The request got past the cache lookup without a row: line 613 was reached.
CalledRequester(i) ==
  /\ req[i].pc \in {"insert", "done"}
  /\ req[i].did # <<>>
  /\ req[i].existingResult = NoRow

\* A 200 body's status and confidence are what the contract says.
StatusAndConfidenceValid(verdict) ==
  /\ verdict.status \in {"real", "fake", "uncertain"}
  /\ IsInteger(verdict.confidence)
  /\ NumberInRange(verdict.confidence)

\* C1: every 200 response to a request whose text is valid carries a status
\* in {real, fake, uncertain} and a confidence that is an integer in 0..100,
\* whatever the external model put in its confidence field.
C1_ResponseStatusAndConfidence ==
  \A i \in Requests :
    (Responded(i) /\ ValidText(i) /\ req[i].response.http = 200)
      => StatusAndConfidenceValid(req[i].response.verdict)

\* Request j repeats request i: the identical text, sent after i responded
\* with a freshly computed 200.
Repeats(j, i) ==
  /\ i # j
  /\ Responded(i) /\ Responded(j)
  /\ i \in req[j].before
  /\ req[j].body = req[i].body
  /\ req[i].response.http = 200
  /\ req[i].response.cached = "false"

SameVerdictFromCache(j, i) ==
  /\ req[j].response.http = 200
  /\ req[j].response.cached = "true"
  /\ req[j].response.verdict = req[i].response.verdict

\* C2 as stated: a request that repeats the text of a freshly computed 200
\* response is answered cached: true with the same status, confidence,
\* justification and sources.
C2_RepeatIsCached ==
  \A i, j \in Requests : Repeats(j, i) => SameVerdictFromCache(j, i)

\* C2 amended: the same, when the first request's insert stored its row and
\* the second request's lookup returned no error.
C2_RepeatIsCachedWhenStored ==
  \A i, j \in Requests :
    (Repeats(j, i) /\ req[i].insertError = "" /\ ~req[j].fetchError)
      => SameVerdictFromCache(j, i)

C2_Witness ==
  \E i, j \in Requests :
    /\ Repeats(j, i) /\ req[i].insertError = "" /\ ~req[j].fetchError
    /\ ValidText(i)
    /\ req[j].response.cached = "true"
    /\ req[j].response.verdict.status = "real"

\* The text with its letters in lower case and each run of white space as
\* one space.
CaseAndWhitespaceFolded(t) == CollapseWhitespace(ToLowerCase(t))

\* The request's fingerprint (line 578), once the handler computed it.
Fingerprinted(i) ==
  req[i].pc # "idle" /\ ReceiveResponse(SUPABASE_URL, req[i].body) = NoResponse

textHash(i) == hashText(cleanText(req[i].body))

\* C3: two request texts that differ only in letter case or in runs of
\* repeated white space get the same fingerprint.
C3_FoldedTextsShareFingerprint ==
  \A i, j \in Requests :
    ( /\ Fingerprinted(i) /\ Fingerprinted(j)
      /\ CaseAndWhitespaceFolded(req[i].body.text)
           = CaseAndWhitespaceFolded(req[j].body.text) )
      => textHash(i) = textHash(j)

\* C4: a request whose text is empty, white space only or shorter than 10
\* characters once sanitized is answered with a 4xx response.
C4_ShortTextRejected ==
  \A i \in Requests :
    ( /\ Responded(i)
      /\ req[i].body.kind = "text"
      /\ Len(sanitizeClientInput(req[i].body.text)) < 10 )
      => (req[i].response.http >= 400 /\ req[i].response.http <= 499)

\* The number of the request among those of its client (all of one client
\* and in one window).
NthOfClient(i) == Cardinality({j \in Requests : j <= i /\ req[j].pc # "idle"})

\* C5: for some cap N, a client's (N+1)-th request with an accepted text is
\* answered 429 and performs no lookup, no external call and no insert.
C5_OverCapDenied ==
  \E N \in 1..(MaxRequests - 1) :
    \A i \in Requests :
      (Responded(i) /\ ValidText(i) /\ NthOfClient(i) > N)
        => (req[i].response.http = 429 /\ req[i].did = <<>>)

\* The external API answered the request's call with a non-success status.
ApiNotOk(i) == CalledRequester(i) /\ req[i].outcome.net = "not_ok"

C7_RequesterNeverRaises ==
  \A i \in Requests :
    (Responded(i) /\ CalledRequester(i))
      => (~req[i].result.raised /\ req[i].response.http # 500)

\* The external API returned a text with no JSON object that parses.
NoParseableJson(i) ==
  /\ CalledRequester(i)
  /\ req[i].outcome.net = "ok" /\ req[i].outcome.hasText
  /\ req[i].outcome.parse \in {"nojson", "badspan"}

\* C8: a response text with no parseable JSON object is recovered through
\* the keyword scan of the response text (affirming word: real, denying
\* word: fake, else uncertain with confidence 50), not through the
\* external-failure default, and never raises.
C8_ProseRecoveredByKeywordScan ==
  \A i \in Requests :
    (Responded(i) /\ NoParseableJson(i))
      => /\ ~req[i].result.raised
         /\ req[i].result.path # "fallback"
         /\ req[i].response.http = 200
         /\ req[i].response.verdict.status = ScanStatus(req[i].outcome)
         /\ req[i].response.verdict.confidence
              = (IF ScanStatus(req[i].outcome) = "uncertain"
                 THEN JsNumber(50) ELSE JsNumber(80))

C10_InsertFailureSwallowed ==
  \A i \in Requests :
    (Responded(i) /\ req[i].insertError # "")
      => /\ req[i].response.http = 200
         /\ req[i].response.cached = "false"
         /\ req[i].response.verdict = req[i].result.verdict
         /\ ~req[i].result.raised

C10_Witness ==
  \E i \in Requests :
    /\ Responded(i) /\ ValidText(i) /\ req[i].insertError = "conflict"
    /\ req[i].response.http = 200 /\ req[i].response.cached = "false"

\* Two requests raced for one fingerprint: both missed the cache and both
\* inserted.
Raced(i, j) ==
  /\ i # j
  /\ Responded(i) /\ Responded(j)
  /\ textHash(i) = textHash(j)
  /\ req[i].did = <<"lookup", "fetch", "insert">>
  /\ req[j].did = <<"lookup", "fetch", "insert">>
  /\ ~req[i].fetchError /\ ~req[j].fetchError

\* C11: in every reachable state fact_checks holds at most one row per
\* fingerprint, and no step removes or changes a stored row: the first insert
\* for a fingerprint wins and a later one leaves the row as it was.
C11_OneRowPerFingerprint ==
  /\ [](\A r1, r2 \in fact_checks : r1.text_hash = r2.text_hash => r1 = r2)
  /\ [][\A row \in fact_checks : row \in fact_checks']_vars

C11_Witness ==
  \E i, j \in Requests :
    /\ Raced(i, j)
    /\ req[i].insertError = "" /\ req[j].insertError = "conflict"
    /\ req[i].result # req[j].result
    /\ Cardinality({row \in fact_checks : row.text_hash = textHash(i)}) = 1

\* The step of the handler that raised the exception of a 500 response.
RaisedAt(i) ==
  IF ~SUPABASE_URL THEN "createClient"
  ELSE IF req[i].body.kind = "notjson" THEN "req.json"
  ELSE IF req[i].result.raised /\ req[i].did # <<>> THEN "factCheckWithGemini"
  ELSE "none"

\* C12: every 500 response carries, besides the error text, a status in
\* {real, fake, uncertain} and an integer confidence in 0..100, whichever
\* step raised: the store client, the body parsing or the requester.
C12_ServerErrorIsVerdictShaped ==
  \A i \in Requests :
    (Responded(i) /\ req[i].response.http = 500)
      => /\ req[i].response.hasError
         /\ StatusAndConfidenceValid(req[i].response.verdict)
         /\ RaisedAt(i) # "none"

C12_Witness ==
  \E i \in Requests :
    /\ Responded(i) /\ req[i].response.http = 500
    /\ RaisedAt(i) = "factCheckWithGemini"
    /\ req[i].outcome.net = "reject"
    /\ req[i].response.verdict.status = "uncertain"
    /\ req[i].response.verdict.confidence = JsNumber(30)

\* The request was rejected with a client error.
Rejected(r) == r.pc = "done" /\ r.response.http >= 400 /\ r.response.http <= 499

\* C13: a request rejected with a client error has performed no cache
\* lookup, no external call and no cache insert, and the step that rejects
\* it leaves the table as it was.
C13_RejectionFrame ==
  /\ [](\A i \in Requests :
          Rejected(req[i])
            => /\ req[i].did = <<>>
               /\ req[i].existingResult = NoRow
               /\ req[i].outcome = NoOutcome
               /\ req[i].insertError = "")
  /\ [][\A i \in Requests :
          (~Rejected(req[i]) /\ Rejected(req'[i]))
            => (req[i].pc = "idle" /\ fact_checks' = fact_checks)]_vars

C13_Witness ==
  \E i \in Requests :
    /\ Rejected(req[i]) /\ req[i].response = BadRequest
    /\ req[i].body = TextBody(<<>>)
    /\ req[i].before # {}
    /\ fact_checks # {}

\* C14: for every text on which sanitizeClientInput succeeds, sanitizing
\* what it returned succeeds and returns the same text.
C14_SanitizeIdempotent ==
  client.pc = "twice" => (~client.threw /\ client.twice = client.once)

\* C15: every stored row holds a Verdict the requester obtained from a
\* successful classification; the catch block's default Verdict is never
\* stored, and so never served as cached.
C15_DegradedVerdictNotStored ==
  /\ \A row \in fact_checks : row.search_results = "validated"
  /\ \A i \in Requests :
       (Responded(i) /\ req[i].response.cached = "true")
         => req[i].existingResult.search_results = "validated"

\* The requester obtained a structured object from the response and
\* returned from its validation (line 506).
Validated(i) ==
  /\ Responded(i) /\ CalledRequester(i)
  /\ req[i].result.path = "validated"
  /\ req[i].outcome.kind = "object"

\* C16: when the structured object's status is missing or not one of real,
\* fake, uncertain, the requester's Verdict has status 'uncertain'.
C16_InvalidStatusBecomesUncertain ==
  \A i \in Requests :
    (Validated(i) /\ ~StatusValid(req[i].outcome))
      => req[i].result.verdict.status = "uncertain"

\* C17: the structured object's confidence is returned unchanged when it is
\* a number in 0..100, whatever its status was, and is otherwise 80 for
\* real or fake and 50 for uncertain.
C17_ValidConfidenceKept ==
  \A i \in Requests :
    Validated(i)
      => LET verdict == req[i].result.verdict
         IN  IF NumberInRange(req[i].outcome.confidence)
             THEN verdict.confidence = req[i].outcome.confidence
             ELSE verdict.confidence =
                    (IF verdict.status \in {"real", "fake"}
                     THEN JsNumber(80) ELSE JsNumber(50))

\* justification is a non-empty string of at most 1000 characters
JustificationBounded(j) == j.t = "string" /\ j.len >= 1 /\ j.len <= 1000

\* C18: every Verdict the requester returns, every stored row and every 200
\* response has a justification that is a non-empty string of at most 1000
\* characters.
C18_JustificationBounded ==
  /\ \A i \in Requests :
       (Responded(i) /\ CalledRequester(i) /\ ~req[i].result.raised)
         => JustificationBounded(req[i].result.verdict.justification)
  /\ \A row \in fact_checks : JustificationBounded(row.justification)
  /\ \A i \in Requests :
       (Responded(i) /\ req[i].response.http = 200)
         => JustificationBounded(req[i].response.verdict.justification)

\* C19: every stored row and every 200 response has at most 5 sources.
C19_AtMostFiveSources ==
  /\ \A row \in fact_checks : row.sources.t = "array" /\ row.sources.len <= 5
  /\ \A i \in Requests :
       (Responded(i) /\ req[i].response.http = 200)
         => /\ req[i].response.verdict.sources.t = "array"
            /\ req[i].response.verdict.sources.len <= 5

HasSource(sources) == sources.t = "array" /\ sources.len >= 1

\* C20: every 200 response, freshly computed or cached, and every stored
\* row has at least one source: a missing, non-array or empty sources field
\* of the external result is replaced by a default source before the Verdict
\* is stored and returned.
C20_AtLeastOneSource ==
  /\ \A row \in fact_checks : HasSource(row.sources)
  /\ \A i \in Requests :
       (Responded(i) /\ req[i].response.http = 200)
         => HasSource(req[i].response.verdict.sources)

C20_Witness ==
  \E i, j \in Requests :
    /\ Responded(i) /\ CalledRequester(i)
    /\ req[i].outcome.sources = JsArray("model", 0)
    /\ req[i].response.http = 200 /\ req[i].response.cached = "false"
    /\ req[i].response.verdict.sources = JsArray("search", 1)
    /\ Responded(j) /\ req[j].response.cached = "true"
    /\ req[j].existingResult = Row(cleanText(req[i].body), req[i].result)
    /\ req[j].response.verdict.sources = JsArray("search", 1)

\* The Verdict a row holds.
RowVerdict(row) ==
  Verdict(row.status, row.confidence, row.justification, row.sources)

\* C21: once a row exists for a fingerprint, every later state has a row
\* for that fingerprint, and each row it has for it holds the same status,
\* confidence, justification and sources.
C21_RowsImmutable ==
  [][\A row \in fact_checks :
       /\ \E later \in fact_checks' : later.text_hash = row.text_hash
       /\ \A later \in fact_checks' :
            later.text_hash = row.text_hash
              => RowVerdict(later) = RowVerdict(row)]_vars

C21_Witness ==
  \E i, j \in Requests :
    /\ i \in req[j].before
    /\ Responded(j) /\ textHash(j) = textHash(i)
    /\ req[i].insertError = ""
    /\ req[j].did = <<"lookup", "fetch", "insert">>
    /\ req[j].result.verdict # req[i].result.verdict
    /\ \A row \in fact_checks :
         row.text_hash = textHash(i) => RowVerdict(row) = req[i].result.verdict

\* C22: a request whose insert conflicts with the row of a concurrent
\* request is answered 200 with the Verdict stored for its fingerprint.
C22_RaceLoserServesStoredRow ==
  \A i \in Requests :
    (Responded(i) /\ req[i].insertError = "conflict")
      => /\ req[i].response.http = 200
         /\ req[i].response.verdict
              = RowVerdict(Select(fact_checks, textHash(i)))

\* C23: every received request eventually responds, also when the external
\* API never answers its call.
C23_EveryRequestResponds ==
  \A i \in Requests : (req[i].pc # "idle") ~> Responded(i)

\* C24: each request performs at most one cache lookup, one external call
\* and one insert attempt, in that order; the insert only after a cache
\* miss, and before the response of a freshly computed Verdict.
C24_NoRetries ==
  \A i \in Requests :
    /\ req[i].did \in {<<>>, <<"lookup">>, <<"lookup", "fetch">>,
                        <<"lookup", "fetch", "insert">>}
    /\ Len(req[i].did) >= 2 => req[i].existingResult = NoRow
    /\ req[i].response # NoResponse => Responded(i)
    /\ (Responded(i) /\ req[i].response.cached = "true")
         => req[i].did = <<"lookup">>
    /\ (Responded(i) /\ req[i].response.cached = "false")
         => req[i].did = <<"lookup", "fetch", "insert">>

C24_Witness ==
  \E i \in Requests :
    /\ Responded(i) /\ req[i].response.http = 200
    /\ req[i].outcome.net = "not_ok"
    /\ req[i].result.path = "fallback"
    /\ req[i].insertError = "store"
    /\ req[i].did = <<"lookup", "fetch", "insert">>

\* C25: the text the endpoint hashes, sends to the external API and stores
\* as input_text is the request text as the client's sanitizer leaves it:
\* without < > " ' &, white space runs collapsed, at most 2000 units.
C25_ServerSanitizesLikeClient ==
  /\ \A i \in Requests :
       Fingerprinted(i)
         => cleanText(req[i].body) = sanitizeClientInput(req[i].body.text)
  /\ \A row \in fact_checks :
       row.input_text = sanitizeClientInput(row.input_text)

\* Request j had stored its row when request i arrived with another text
\* of the same fingerprint.
CollidesWithStored(i, j) ==
  /\ Responded(i) /\ Fingerprinted(i)
  /\ j \in req[i].before
  /\ req[j].did = <<"lookup", "fetch", "insert">> /\ req[j].insertError = ""
  /\ cleanText(req[j].body) # cleanText(req[i].body)
  /\ textHash(j) = textHash(i)

\* The request was answered from row, without a call or an insert.
AnsweredFrom(i, row) ==
  /\ req[i].response.http = 200
  /\ req[i].response.cached = "true"
  /\ req[i].response.verdict
       = Verdict(row.status, row.confidence, row.justification, row.sources)
  /\ req[i].did = <<"lookup">>

\* C26 as stated: a request whose text collides with an earlier text's
\* stored row is answered 200 from that row, cached: true, without an
\* external call, and no second row is created.
C26_CollisionServedFromRow ==
  /\ \A i, j \in Requests :
       CollidesWithStored(i, j)
         => AnsweredFrom(i, Row(cleanText(req[j].body), req[j].result))
  /\ \A r1, r2 \in fact_checks : r1.text_hash = r2.text_hash => r1 = r2

\* C26 amended: the same, for a request whose lookup returned no error.
C26_CollisionServedFromRowWhenLookedUp ==
  /\ \A i, j \in Requests :
       (CollidesWithStored(i, j) /\ ~req[i].fetchError)
         => AnsweredFrom(i, Row(cleanText(req[j].body), req[j].result))
  /\ \A r1, r2 \in fact_checks : r1.text_hash = r2.text_hash => r1 = r2

C26_Witness ==
  \E i, j \in Requests :
    /\ CollidesWithStored(i, j) /\ ~req[i].fetchError
    /\ req[i].existingResult.input_text = cleanText(req[j].body)
    /\ req[i].response.cached = "true"
    /\ Cardinality(fact_checks) = 1

\* C27: for every sanitized input of 10 to 2000 characters the local
\* analyzer returns a confidence in [0,100] and a status in {real, fake,
\* uncertain}, whatever number of keywords the text contains.
C27_LocalVerdictInRange ==
  ( /\ client.pc = "done" /\ client.ended = "resolved"
    /\ Len(sanitizeClientInput(client.text)) >= 10
    /\ Len(sanitizeClientInput(client.text)) <= 2000 )
    => /\ client.result.confidence >= 0 /\ client.result.confidence <= 100
       /\ client.result.status \in {"real", "fake", "uncertain"}

\* The client's call has ended with the endpoint's response in hand.
GotResponse == client.pc = "done" /\ client.reply = "response"

\* C28: the result analyzeText returns has cached: true whenever the
\* endpoint's 200 response has cached: true, and cached false otherwise.
C28_CachedFlagPropagated ==
  (GotResponse /\ req[client.slot].response.http = 200)
    => (client.result.cached = "true")
         = (req[client.slot].response.cached = "true")

\* C29: for an input whose sanitized length is at least 10, analyzeText
\* sends one request and never rejects; when the request fails it resolves
\* to uncertain, confidence 20, with two sources; it rejects only an empty
\* or too short input, having sent nothing.
C29_ClientNeverRejectsValidInput ==
  client.pc = "done" =>
    /\ Len(sanitizeClientInput(client.text)) >= 10
         => /\ client.ended = "resolved"
            /\ client.sent = 1
            /\ RequestFailed(client.reply, req[client.slot].response)
                 => /\ client.result.status = "uncertain"
                    /\ client.result.confidence = JsNumber(20)
                    /\ client.result.sources.len = 2
    /\ client.ended = "rejected"
         => /\ client.sent = 0
            /\ Len(sanitizeClientInput(client.text)) < 10

\* The request's lookup returned an error and the request has responded.
LookupFailed(i) == Responded(i) /\ req[i].fetchError

\* The request went on as after a cache miss and answered with what the
\* requester returned.
AnsweredAsMiss(i) ==
  /\ req[i].existingResult = NoRow
  /\ req[i].did = <<"lookup", "fetch", "insert">>
  /\ req[i].response.http = 200
  /\ req[i].response.cached = "false"
  /\ req[i].response.verdict = req[i].result.verdict

\* The insert of the request met a row of its fingerprint, and the table
\* holds that row as the request that stored it wrote it.
ConflictLeftRow(i) ==
  req[i].insertError = "conflict"
    => \E j \in Requests \ {i} :
         /\ req[j].insertError = "" /\ req[j].did = <<"lookup", "fetch", "insert">>
         /\ textHash(j) = textHash(i)
         /\ Row(cleanText(req[j].body), req[j].result) \in fact_checks
         /\ \A row \in fact_checks :
              row.text_hash = textHash(i)
                => row = Row(cleanText(req[j].body), req[j].result)

====
